---------------------------- MODULE Spec2Model ----------------------------
(* A model of the shopee scraper: helpers/scrape_product_details_helper.py *)
(* and scrape_action_helpers.py.  Strings whose content matters (price    *)
(* texts, hrefs, style attributes, quantity texts) are sequences of       *)
(* one-character strings; the peso sign (U+20B1) is written "PESO".       *)
EXTENDS Integers, Sequences, FiniteSets, TLC

VARIABLES
    pc,                 \* position of the running call
    call,               \* "none" | "details" | "urls" | "price"
    session,            \* "none" | "open" | "closed": the Chrome session
    log,                \* driver operations issued so far, in order
    nav_count,          \* number of chrome_driver.get(url) calls
    waits,              \* marker -> "no" | "found" | "timeout"
    y, last_height, timer,   \* locals of scroll_down
    scroll_pos,         \* last position passed to window.scrollTo (-1: none)
    html_source,        \* "unset" | "None" | the page read
    soup,               \* "unset" | the parsed page
    product_name, product_category, product_price,
    product_quantity, product_description, product_image,
    thumbs,             \* number of ZPN9uD thumbnails on the page
    previewable,        \* thumbnails (original order 1..thumbs) whose hover shows a preview
    product_photos,     \* working set of _get_product_image
    item,               \* "None" | the preview element found
    rounds,             \* iterations of the hover loop so far
    product_urls,
    price_text,         \* input of the price extractor
    result              \* "unset" | the value returned

vars == << pc, call, session, log, nav_count, waits, y, last_height, timer,
           scroll_pos, html_source, soup, product_name, product_category,
           product_price, product_quantity, product_description,
           product_image, thumbs, previewable, product_photos, item, rounds,
           product_urls, price_text, result >>

--------------------------------------------------------------------------
(* Bounds of the model *)

MaxHeightSteps == 62
MaxThumbs == 3
MaxAnchors == 3
MaxPriceLen == 4

(* Program constants *)

ScrollStart == 1000
ScrollStepPx == 1000
ScrollLimit == 60

--------------------------------------------------------------------------
(* Strings *)

Origin == << "h","t","t","p","s",":","/","/","s","h","o","p","e","e",".","p","h" >>

Reverse(s) == [i \in 1..Len(s) |-> s[Len(s) + 1 - i]]

RECURSIVE SplitGo(_, _, _, _, _)
SplitGo(s, sep, i, cur, acc) ==
    IF i > Len(s) THEN Append(acc, cur)
    ELSE IF s[i] = sep THEN SplitGo(s, sep, i + 1, << >>, Append(acc, cur))
    ELSE SplitGo(s, sep, i + 1, Append(cur, s[i]), acc)

\* str.split(sep) for a one-character separator: always at least one segment
Split(s, sep) == SplitGo(s, sep, 1, << >>, << >>)

\* str.split() with no argument: runs of blanks separate, no empty segments
SplitWhitespace(s) == SelectSeq(Split(s, " "), LAMBDA seg : seg # << >>)

\* str.replace(old, "") for a one-character old
Remove(s, old) == SelectSeq(s, LAMBDA c : c # old)


--------------------------------------------------------------------------
(* Pure helpers of the extractors *)

\* mutant: the first segment after a currency symbol instead of the last
get_product_price_first(text) ==
    LET segs == Split(text, "PESO")
    IN  Remove(segs[IF Len(segs) > 1 THEN 2 ELSE 1], ",")

\* item.split(PESO)[-1].replace(",", "")
get_product_price(text) ==
    LET segs == Split(text, "PESO")
    IN  Remove(segs[Len(segs)], ",")

\* item_image.split(" ")[1].split('"')[1]; not ok: IndexError
image_from_style(style) ==
    LET parts == Split(style, " ")
    IN  IF Len(parts) < 2 THEN [ok |-> FALSE, val |-> << >>]
        ELSE LET q == Split(parts[2], "\"")
             IN  IF Len(q) < 2 THEN [ok |-> FALSE, val |-> << >>]
                 ELSE [ok |-> TRUE, val |-> q[2]]

\* mutant: any() instead of all()
wait_products_any(c, p, d) == c \/ p \/ d

\* all([product_category, product_price, product_description])
wait_products_all(c, p, d) == c /\ p /\ d

\* mutant: the break test allows one more increment
scroll_break_late(yy, h) == yy > h + ScrollStepPx

\* if y >= last_height: break
scroll_break(yy, h) == yy >= h

\* mutant: find_all("a") without the attribute filter
link_anchors_all(anchors) == anchors

\* soup.find_all("a", {"data-sqe": "link"})
link_anchors(anchors) == SelectSeq(anchors, LAMBDA a : a.sqe = "link")

RECURSIVE build_urls(_)
\* the for loop of get_product_urls: append f"https://shopee.ph{product['href']}"
build_urls(products) ==
    IF products = << >> THEN << >>
    ELSE << Origin \o Head(products).href >> \o build_urls(Tail(products))

\* mutant: pop(0), the first photo of the working set is dropped
drop_first(photos) == SubSeq(photos, 2, Len(photos))

\* product_photos.pop(): the last photo of the working set is dropped
drop_last(photos) == SubSeq(photos, 1, Len(photos) - 1)

\* find_elements_by_class_name("ZPN9uD"), reversed unless there is exactly one
initial_photos(n) ==
    IF n # 1 THEN Reverse([i \in 1..n |-> i]) ELSE [i \in 1..n |-> i]

--------------------------------------------------------------------------
(* The pages the browser may show *)

Markers == { "qaNIZv", "JFOy4z", "_3n5NQx", "_2u0jt9", "carousel-arrow" }

HeightOffsets == { 0, 1, 999 }

\* values document.body.scrollHeight may have
Heights == { ScrollStepPx * q + r : q \in 0..MaxHeightSteps, r \in HeightOffsets }

PriceAlphabet == { "PESO", ",", "1", "2", "x" }

Texts(n) == UNION { [1..k -> PriceAlphabet] : k \in 0..n }

FlowPriceTexts == { << "PESO", "1", ",", "2" >>, << "PESO", "1", "PESO", "2" >> }

QuantityTexts == { << "2","5"," ","p","i","e","c","e"," ","a","v","a","i","l","a","b","l","e" >> }

StyleTexts == { << >>,
                << "b",":"," ","u","r","l","(","\"","u","\"",")",";" >>,
                << "b",":","u","r","l","(","\"","u","\"",")" >>,
                << "b",":"," ","u","r","l","(","u",")" >> }

\* item.get("style"): the attribute may be missing
Styles == { [has |-> FALSE, val |-> << >>] } \cup { [has |-> TRUE, val |-> t] : t \in StyleTexts }

NoItem == [found |-> FALSE]

\* a local that holds no text yet
Unset == << "unset" >>

Hrefs == { << "/","a" >>, << "/","b" >> }

Anchor == [sqe : { "link", "other" }, href : Hrefs]

CategoryPages == UNION { [1..k -> Anchor] : k \in 0..MaxAnchors }

\* a product page on which the four markers are present
ProductPages == [kind : { "product" }, name_span : { "None", "N" }, categories : 1..2,
                 price_text : FlowPriceTexts, desc_span : { "None", "D" }]

--------------------------------------------------------------------------
(* Initial states *)

InitCommon ==
    /\ session = "none" /\ log = << >> /\ nav_count = 0
    /\ waits = [m \in Markers |-> "no"]
    /\ y = 0 /\ last_height = 0 /\ timer = 0 /\ scroll_pos = -1
    /\ html_source = [kind |-> "unset"] /\ soup = [kind |-> "unset"]
    /\ product_name = "unset" /\ product_category = "unset"
    /\ product_price = Unset /\ product_quantity = Unset
    /\ product_description = "unset" /\ product_image = Unset
    /\ thumbs = 0 /\ previewable = {} /\ product_photos = << >>
    /\ item = NoItem /\ rounds = 0
    /\ product_urls = << >> /\ result = [kind |-> "unset"]

Init == InitCommon /\ pc = "idle" /\ call = "none" /\ price_text = << >>


--------------------------------------------------------------------------
(* Variable groups *)

scrollVars == << y, last_height, timer, scroll_pos >>
pageVars   == << html_source, soup >>
fieldVars  == << product_name, product_category, product_price,
                 product_quantity, product_description, product_image >>
imageVars  == << thumbs, previewable, product_photos, item, rounds >>
otherVars  == << product_urls, price_text >>

\* an uncaught exception ends the call where it is raised
Raise == pc' = "fault"

--------------------------------------------------------------------------
(* get_product_details(url) *)

CallDetails ==
    /\ pc = "idle"
    /\ call' = "details" /\ pc' = "driver"
    /\ UNCHANGED << session, log, nav_count, waits, scrollVars, pageVars,
                    fieldVars, imageVars, otherVars, result >>

\* chrome_driver = driver(): the session is launched
Driver ==
    /\ pc = "driver"
    /\ session' = "open" /\ log' = Append(log, "open") /\ pc' = "get"
    /\ UNCHANGED << call, nav_count, waits, scrollVars, pageVars, fieldVars,
                    imageVars, otherVars, result >>

\* webdriver.Chrome(...) raises: the launch failure propagates
DriverFail ==
    /\ pc = "driver"
    /\ Raise
    /\ UNCHANGED << call, session, log, nav_count, waits, scrollVars,
                    pageVars, fieldVars, imageVars, otherVars, result >>

\* chrome_driver.get(url)
Navigate ==
    /\ pc = "get"
    /\ nav_count' = nav_count + 1 /\ log' = Append(log, "get")
    /\ pc' = "wait_name"
    /\ UNCHANGED << call, session, waits, scrollVars, pageVars, fieldVars,
                    imageVars, otherVars, result >>

\* wait_for_element_to_load(chrome_driver, marker): TRUE when the marker
\* appears within the timeout, FALSE when the wait times out
wait_for_element_to_load(marker, found) ==
    /\ waits' = [waits EXCEPT ![marker] = IF found THEN "found" ELSE "timeout"]
    /\ log' = Append(log, "wait_" \o marker)

\* mutant: the result of the name wait is not tested
WaitNameUnchecked ==
    /\ pc = "wait_name"
    /\ \E found \in BOOLEAN : wait_for_element_to_load("qaNIZv", found)
    /\ pc' = "scroll_init"
    /\ UNCHANGED << call, session, nav_count, scrollVars, pageVars, fieldVars,
                    imageVars, otherVars, result >>

\* if wait_for_element_to_load(chrome_driver, "qaNIZv"): ... else return None
WaitName ==
    /\ pc = "wait_name"
    /\ \E found \in BOOLEAN :
          /\ wait_for_element_to_load("qaNIZv", found)
          /\ IF found
             THEN pc' = "scroll_init" /\ UNCHANGED html_source
             ELSE pc' = "soup" /\ html_source' = [kind |-> "None"]
    /\ UNCHANGED << call, session, nav_count, scrollVars, soup, fieldVars,
                    imageVars, otherVars, result >>

--------------------------------------------------------------------------
(* scroll_down(chrome_driver), called by both page scrapers *)

\* y = 1000; last_height = execute_script("return document.body.scrollHeight")
ScrollInit ==
    /\ pc = "scroll_init"
    /\ \E h \in Heights : last_height' = h
    /\ y' = ScrollStart /\ timer' = 0
    /\ log' = Append(log, "scroll_begin")
    /\ pc' = "scroll_loop"
    /\ UNCHANGED << call, session, nav_count, waits, scroll_pos, pageVars,
                    fieldVars, imageVars, otherVars, result >>

\* one iteration of "for timer in range(0, 60)": scrollTo(0, y); y += 1000;
\* sleep; break when y >= last_height
ScrollStep ==
    /\ pc = "scroll_loop"
    /\ timer < ScrollLimit
    /\ scroll_pos' = y
    /\ y' = y + ScrollStepPx
    /\ timer' = timer + 1
    /\ pc' = IF scroll_break(y', last_height) \/ timer' = ScrollLimit
             THEN "scroll_done" ELSE "scroll_loop"
    /\ UNCHANGED << call, session, log, nav_count, waits, last_height,
                    pageVars, fieldVars, imageVars, otherVars, result >>

\* scroll_down returns to its caller; its locals are gone
ScrollReturn ==
    /\ pc = "scroll_done"
    /\ y' = 0 /\ last_height' = 0 /\ timer' = 0
    /\ log' = Append(log, "scroll_end")
    /\ pc' = IF call = "details" THEN "wait_category" ELSE "cat_source"
    /\ UNCHANGED << call, session, nav_count, waits, scroll_pos, pageVars,
                    fieldVars, imageVars, otherVars, result >>

--------------------------------------------------------------------------
(* wait_products_elements(chrome_driver): three waits, all of them made *)

WaitCategory ==
    /\ pc = "wait_category"
    /\ \E found \in BOOLEAN : wait_for_element_to_load("JFOy4z", found)
    /\ pc' = "wait_price"
    /\ UNCHANGED << call, session, nav_count, scrollVars, pageVars, fieldVars,
                    imageVars, otherVars, result >>

WaitPrice ==
    /\ pc = "wait_price"
    /\ \E found \in BOOLEAN : wait_for_element_to_load("_3n5NQx", found)
    /\ pc' = "wait_description"
    /\ UNCHANGED << call, session, nav_count, scrollVars, pageVars, fieldVars,
                    imageVars, otherVars, result >>

WaitDescription ==
    /\ pc = "wait_description"
    /\ \E found \in BOOLEAN : wait_for_element_to_load("_2u0jt9", found)
    /\ pc' = "products_ready"
    /\ UNCHANGED << call, session, nav_count, scrollVars, pageVars, fieldVars,
                    imageVars, otherVars, result >>

wait_products_elements ==
    wait_products_all(waits["JFOy4z"] = "found", waits["_3n5NQx"] = "found",
                      waits["_2u0jt9"] = "found")

\* if wait_products_elements(chrome_driver): html_source = page_source;
\* return html_source -- otherwise the function falls off its end (None)
ProductSource ==
    /\ pc = "products_ready"
    /\ IF wait_products_elements
       THEN /\ \E page \in ProductPages : html_source' = page
            /\ log' = Append(log, "page_source")
       ELSE /\ html_source' = [kind |-> "None"]
            /\ UNCHANGED log
    /\ pc' = "soup"
    /\ UNCHANGED << call, session, nav_count, waits, scrollVars, soup,
                    fieldVars, imageVars, otherVars, result >>

--------------------------------------------------------------------------
(* get_product_details, after scrape_product_urls_source returned *)

\* soup = BeautifulSoup(html_source, "html.parser"): TypeError on None
MakeSoup ==
    /\ pc = "soup"
    /\ IF html_source.kind = "None"
       THEN Raise /\ UNCHANGED soup
       ELSE soup' = html_source /\ pc' = "name"
    /\ UNCHANGED << call, session, log, nav_count, waits, scrollVars,
                    html_source, fieldVars, imageVars, otherVars, result >>

\* _get_product_name: soup.find(class_="qaNIZv").find("span").text
GetProductName ==
    /\ pc = "name"
    /\ IF soup.name_span = "None"
       THEN Raise /\ UNCHANGED product_name
       ELSE product_name' = soup.name_span /\ pc' = "category"
    /\ UNCHANGED << call, session, log, nav_count, waits, scrollVars,
                    pageVars, product_category, product_price,
                    product_quantity, product_description, product_image,
                    imageVars, otherVars, result >>

\* _get_product_category: soup.findAll(class_="JFOy4z")[1].text
GetProductCategory ==
    /\ pc = "category"
    /\ IF soup.categories < 2
       THEN Raise /\ UNCHANGED product_category
       ELSE product_category' = "C" /\ pc' = "price"
    /\ UNCHANGED << call, session, log, nav_count, waits, scrollVars,
                    pageVars, product_name, product_price, product_quantity,
                    product_description, product_image, imageVars, otherVars,
                    result >>

\* _get_product_price(soup)
GetProductPrice ==
    /\ pc = "price"
    /\ product_price' = get_product_price(soup.price_text)
    /\ pc' = "quantity"
    /\ UNCHANGED << call, session, log, nav_count, waits, scrollVars,
                    pageVars, product_name, product_category,
                    product_quantity, product_description, product_image,
                    imageVars, otherVars, result >>

\* _get_product_quantity: find_element_by_xpath(...).text.split()[0];
\* NoSuchElementException when no element holds "piece available"
GetProductQuantity ==
    /\ pc = "quantity"
    /\ log' = Append(log, "find_xpath")
    /\ \/ Raise /\ UNCHANGED product_quantity
       \/ \E q \in QuantityTexts :
             /\ product_quantity' = SplitWhitespace(q)[1]
             /\ pc' = "description"
    /\ UNCHANGED << call, session, nav_count, waits, scrollVars, pageVars,
                    product_name, product_category, product_price,
                    product_description, product_image, imageVars, otherVars,
                    result >>

\* _get_product_description: soup.find(class_="_2u0jt9").find("span").text
GetProductDescription ==
    /\ pc = "description"
    /\ IF soup.desc_span = "None"
       THEN Raise /\ UNCHANGED product_description
       ELSE product_description' = soup.desc_span /\ pc' = "image_find"
    /\ UNCHANGED << call, session, log, nav_count, waits, scrollVars,
                    pageVars, product_name, product_category, product_price,
                    product_quantity, product_image, imageVars, otherVars,
                    result >>

--------------------------------------------------------------------------
(* _get_product_image(chrome_driver) *)

\* product_photos = find_elements_by_class_name("ZPN9uD"); item = None;
\* if len(product_photos) != 1: product_photos.reverse()
ImageFind ==
    /\ pc = "image_find"
    /\ \E n \in 0..MaxThumbs : \E pv \in SUBSET (1..n) :
          /\ thumbs' = n /\ previewable' = pv
          /\ product_photos' = initial_photos(n)
    /\ item' = NoItem /\ rounds' = 0
    /\ log' = Append(log, "find_elements")
    /\ pc' = "image_loop"
    /\ UNCHANGED << call, session, nav_count, waits, scrollVars, pageVars,
                    fieldVars, otherVars, result >>

\* one iteration of "while product_photos and not item": hover over every
\* photo of the working set, re-parse the page, look for class _2JMB9h;
\* the preview shown is that of the photo hovered last
ImageRound ==
    /\ pc = "image_loop"
    /\ product_photos # << >> /\ ~item.found
    /\ rounds' = rounds + 1
    /\ log' = Append(Append(log, "hover"), "page_source")
    /\ LET last == product_photos[Len(product_photos)]
       IN  IF last \in previewable
           THEN /\ \E st \in Styles :
                      item' = [found |-> TRUE, thumb |-> last, style |-> st]
                /\ pc' = "image_style"
                /\ UNCHANGED product_photos
           ELSE /\ product_photos' = drop_last(product_photos)
                /\ UNCHANGED << item, pc >>
    /\ UNCHANGED << call, session, nav_count, waits, scrollVars, pageVars,
                    fieldVars, thumbs, previewable, otherVars, result >>

\* the while condition fails: the working set is empty
ImageLoopExit ==
    /\ pc = "image_loop"
    /\ product_photos = << >> \/ item.found
    /\ pc' = "image_style"
    /\ UNCHANGED << call, session, log, nav_count, waits, scrollVars,
                    pageVars, fieldVars, imageVars, otherVars, result >>

\* item_image = item.get("style"); if item_image: return the url part;
\* return "" -- AttributeError when item is None
ImageStyle ==
    /\ pc = "image_style"
    /\ IF ~item.found
       THEN Raise /\ UNCHANGED product_image
       ELSE IF ~item.style.has \/ item.style.val = << >>
       THEN product_image' = << >> /\ pc' = "close"
       ELSE IF image_from_style(item.style.val).ok
       THEN product_image' = image_from_style(item.style.val).val /\ pc' = "close"
       ELSE Raise /\ UNCHANGED product_image
    /\ UNCHANGED << call, session, log, nav_count, waits, scrollVars,
                    pageVars, product_name, product_category, product_price,
                    product_quantity, product_description, imageVars,
                    otherVars, result >>

\* chrome_driver.close()
CloseSession ==
    /\ pc = "close"
    /\ session' = "closed" /\ log' = Append(log, "close")
    /\ pc' = "return"
    /\ UNCHANGED << call, nav_count, waits, scrollVars, pageVars, fieldVars,
                    imageVars, otherVars, result >>

\* return {"name": ..., "description": ..., "price": ..., "image": ...,
\*         "quantity": ..., "created_at": datetime.now()}
ReturnRecord ==
    /\ pc = "return"
    /\ result' = [kind |-> "record", name |-> product_name,
                  description |-> product_description, price |-> product_price,
                  image |-> product_image, quantity |-> product_quantity]
    /\ pc' = "done"
    /\ UNCHANGED << call, session, log, nav_count, waits, scrollVars,
                    pageVars, fieldVars, imageVars, otherVars >>

--------------------------------------------------------------------------
(* get_product_urls(chrome_driver, url), on a session the caller opened *)

CallUrls ==
    /\ pc = "idle"
    /\ call' = "urls" /\ session' = "open" /\ log' = Append(log, "open")
    /\ pc' = "cat_get"
    /\ UNCHANGED << nav_count, waits, scrollVars, pageVars, fieldVars,
                    imageVars, otherVars, result >>

\* scrape_category_url_source: chrome_driver.get(url)
CatNavigate ==
    /\ pc = "cat_get"
    /\ nav_count' = nav_count + 1 /\ log' = Append(log, "get")
    /\ pc' = "cat_wait"
    /\ UNCHANGED << call, session, waits, scrollVars, pageVars, fieldVars,
                    imageVars, otherVars, result >>

\* if wait_for_element_to_load(chrome_driver, "carousel-arrow"): ...
WaitCarousel ==
    /\ pc = "cat_wait"
    /\ \E found \in BOOLEAN :
          /\ wait_for_element_to_load("carousel-arrow", found)
          /\ IF found
             THEN pc' = "scroll_init" /\ UNCHANGED html_source
             ELSE pc' = "cat_soup" /\ html_source' = [kind |-> "None"]
    /\ UNCHANGED << call, session, nav_count, scrollVars, soup, fieldVars,
                    imageVars, otherVars, result >>

\* html_source = chrome_driver.page_source; return html_source
CatSource ==
    /\ pc = "cat_source"
    /\ \E a \in CategoryPages : html_source' = [kind |-> "category", anchors |-> a]
    /\ log' = Append(log, "page_source")
    /\ pc' = "cat_soup"
    /\ UNCHANGED << call, session, nav_count, waits, scrollVars, soup,
                    fieldVars, imageVars, otherVars, result >>

\* soup = BeautifulSoup(html_source); products = soup.find_all(...);
\* the loop; return product_urls
GetProductUrls ==
    /\ pc = "cat_soup"
    /\ IF html_source.kind = "None"
       THEN Raise /\ UNCHANGED << soup, product_urls, result >>
       ELSE /\ soup' = html_source
            /\ product_urls' = build_urls(link_anchors(html_source.anchors))
            /\ result' = [kind |-> "urls", urls |-> product_urls']
            /\ pc' = "done"
    /\ UNCHANGED << call, session, log, nav_count, waits, scrollVars,
                    html_source, fieldVars, imageVars, price_text >>

--------------------------------------------------------------------------
(* _get_product_price on its own, over every short price text *)

InitPrice ==
    /\ InitCommon /\ pc = "price_call" /\ call = "price"
    /\ price_text \in Texts(MaxPriceLen)

PriceCall ==
    /\ pc = "price_call"
    /\ product_price' = get_product_price(price_text)
    /\ pc' = "price_done"
    /\ UNCHANGED << call, session, log, nav_count, waits, scrollVars,
                    pageVars, product_name, product_category,
                    product_quantity, product_description, product_image,
                    imageVars, otherVars, result >>

--------------------------------------------------------------------------
(* Specifications *)

Next ==
    \/ CallDetails \/ Driver \/ DriverFail \/ Navigate \/ WaitName
    \/ ScrollInit \/ ScrollStep \/ ScrollReturn
    \/ WaitCategory \/ WaitPrice \/ WaitDescription \/ ProductSource
    \/ MakeSoup \/ GetProductName \/ GetProductCategory \/ GetProductPrice
    \/ GetProductQuantity \/ GetProductDescription
    \/ ImageFind \/ ImageRound \/ ImageLoopExit \/ ImageStyle
    \/ CloseSession \/ ReturnRecord
    \/ CallUrls \/ CatNavigate \/ WaitCarousel \/ CatSource \/ GetProductUrls

Spec == Init /\ [][Next]_vars

SpecPrice == InitPrice /\ [][PriceCall]_vars

--------------------------------------------------------------------------
(* Properties *)

Ends == { "done", "fault" }

ProductMarkers == { "qaNIZv", "JFOy4z", "_3n5NQx", "_2u0jt9" }

MarkerTimedOut == \E m \in ProductMarkers : waits[m] = "timeout"

Logged(op) == \E i \in DOMAIN log : log[i] = op

Count(op) == Cardinality({ i \in DOMAIN log : log[i] = op })

Before(a, b) == \A i, j \in DOMAIN log : (log[i] = a /\ log[j] = b) => i < j

\* the least k with ScrollStepPx * k >= h
StepsNeeded(h) == (h + ScrollStepPx - 1) \div ScrollStepPx

\* C1: when a required marker wait timed out, get_product_details ends by
\* returning an absent value: no record and no unhandled fault.
C1_AbsentOnTimeout ==
    (call = "details" /\ MarkerTimedOut /\ pc \in Ends)
        => (pc = "done" /\ result.kind = "None")

\* C2 as stated: for every scroll height H, scroll_down makes at most 60
\* steps and at most k steps, k the least integer with 1000 * k >= H.
C2_StepsAtMostK ==
    pc = "scroll_done"
        => (timer <= ScrollLimit /\ timer <= StepsNeeded(last_height))

\* C2 amended: scroll_down makes at least one and at most 60 steps; for a
\* scroll height H >= 1 it makes at most k steps, and for H = 0 exactly one.
C2_StepsBounded ==
    pc \in { "scroll_loop", "scroll_done" }
        => /\ timer <= ScrollLimit
           /\ last_height >= 1 => timer <= StepsNeeded(last_height)
           /\ last_height = 0 => timer <= 1
           /\ pc = "scroll_done" => timer >= 1

C2_Witness ==
    /\ pc = "scroll_done" /\ timer = ScrollLimit
    /\ last_height > ScrollLimit * ScrollStepPx

\* C3: scroll_down stops before its 60th step exactly when the position
\* last passed to window.scrollTo is at or beyond the initial scroll height.
C3_EarlyStopIffReached ==
    /\ (pc = "scroll_done" /\ timer < ScrollLimit) => scroll_pos >= last_height
    /\ (pc = "scroll_loop" /\ timer >= 1) => scroll_pos < last_height

\* C4: when _get_product_image ends its search without a preview element
\* (no thumbnails, or every thumbnail dropped), the image is the empty string.
C4_NoPreviewGivesEmptyImage ==
    (call = "details" /\ Logged("find_elements") /\ ~item.found
     /\ pc \notin { "image_loop", "image_style" })
        => (pc # "fault" /\ product_image = << >>)

C5_Page == thumbs >= 2 /\ previewable = { thumbs - 1 }

\* C5: with n >= 2 thumbnails of which only the second-to-last shows a
\* preview, the hover loop ends with that thumbnail's preview, every failed
\* round having dropped exactly the last photo of the working set, within
\* at most n rounds.
C5_HoverLoopConverges ==
    C5_Page
        => /\ rounds <= thumbs
           /\ ~item.found
                => /\ pc = "image_loop"
                   /\ product_photos = [i \in 1..(thumbs - rounds) |-> thumbs + 1 - i]
                   /\ product_photos # << >>
           /\ item.found => item.thumb = thumbs - 1

C5_Witness ==
    C5_Page /\ thumbs >= 3 /\ item.found /\ rounds = thumbs - 1 /\ pc = "done"

\* C6: when a get_product_details call has ended, on any path, the session
\* it opened is closed.
C6_SessionClosedAtEnd ==
    (call = "details" /\ pc \in Ends) => session # "open"

\* C7: scrape_product_urls_source returns the page source exactly when the
\* name wait and the category, price and description waits all succeeded;
\* if one of them timed out it returns None.
C7_SourceIffAllMarkers ==
    (call = "details" /\ html_source.kind # "unset")
        => /\ html_source.kind \in { "product", "None" }
           /\ html_source.kind = "product"
                <=> \A m \in ProductMarkers : waits[m] = "found"
           /\ MarkerTimedOut => html_source.kind = "None"

C7_Witness ==
    /\ call = "details" /\ pc = "soup" /\ html_source.kind = "None"
    /\ waits["qaNIZv"] = "found" /\ waits["JFOy4z"] = "found"
    /\ waits["_3n5NQx"] = "timeout" /\ waits["_2u0jt9"] = "found"

\* the index of the j-th anchor carrying the link marker
NthLink(a, j) ==
    CHOOSE i \in DOMAIN a :
        /\ a[i].sqe = "link"
        /\ Cardinality({ k \in 1..i : a[k].sqe = "link" }) = j

Digits == { "1", "2" }

\* the index of the last currency symbol when only digits and commas, at
\* least one digit, follow it; 0 otherwise
PriceFormAt(t) ==
    LET ok == { i \in DOMAIN t :
                  /\ t[i] = "PESO"
                  /\ \A j \in (i + 1)..Len(t) : t[j] \in Digits \cup { "," }
                  /\ \E j \in (i + 1)..Len(t) : t[j] \in Digits }
    IN  IF ok = {} THEN 0 ELSE CHOOSE i \in ok : TRUE

\* C9: for a price text ending in a currency symbol followed by digits and
\* commas, _get_product_price returns those digits in order, without commas
\* and without a currency symbol.
C9_PriceDigits ==
    (pc = "price_done" /\ PriceFormAt(price_text) > 0)
        => LET i == PriceFormAt(price_text)
               tail == SubSeq(price_text, i + 1, Len(price_text))
           IN  /\ product_price = SelectSeq(tail, LAMBDA c : c \in Digits)
               /\ \A k \in DOMAIN product_price : product_price[k] \in Digits

C9_Witness ==
    /\ pc = "price_done" /\ PriceFormAt(price_text) = 2
    /\ Len(price_text) = 4 /\ price_text[4] = ","
    /\ product_price = << "1" >>

\* C10: in a get_product_details call the session is opened, the URL is
\* navigated to once, then the name marker is waited for; scrolling follows
\* a successful name wait, the three further waits follow the scrolling,
\* the page source is read after all three succeeded, nothing is repeated
\* and nothing is issued on the session after its close.
C10_StepOrder ==
    call = "details"
        => /\ nav_count <= 1 /\ Count("get") = nav_count /\ Count("open") <= 1
           /\ \A m \in ProductMarkers : Count("wait_" \o m) <= 1
           /\ Count("scroll_begin") <= 1 /\ Count("scroll_end") <= 1
           /\ Before("open", "get") /\ Before("get", "wait_qaNIZv")
           /\ Logged("get") => Logged("open")
           /\ Logged("wait_qaNIZv") => Logged("get")
           /\ Before("wait_qaNIZv", "scroll_begin")
           /\ Logged("scroll_begin") => waits["qaNIZv"] = "found"
           /\ \A m \in ProductMarkers \ { "qaNIZv" } :
                 /\ Before("scroll_end", "wait_" \o m)
                 /\ Logged("wait_" \o m) => Logged("scroll_end")
                 /\ Before("wait_" \o m, "page_source")
           /\ Logged("page_source")
                => \A m \in ProductMarkers : waits[m] = "found"
           /\ \A i \in DOMAIN log : log[i] = "close" => i = Len(log)
           /\ session = "closed" <=> Logged("close")
           /\ pc = "done" => nav_count = 1

C10_Witness ==
    call = "details" /\ pc = "done" /\ rounds >= 2 /\ session = "closed"

==========================================================================
